---- MODULE Spec2Model ----
(***************************************************************************)
(* Corporate entity resolution engine of OpenDart-mcp.                     *)
(*                                                                         *)
(* The durable Entity Store is one table of a SQLite file (DB_PATH).  The  *)
(* server process (app.py) synchronises the table at module load           *)
(* (fetch_dart_corp_list) and then serves find_company_by_name calls.     *)
(* Several server processes may be launched against the same file; each    *)
(* SQL statement is atomic, so a synchronisation run is modelled as one    *)
(* action per statement boundary and a resolve call (no suspension point)  *)
(* as one action.                                                          *)
(*                                                                         *)
(* Text values are sequences of one-character strings.                     *)
(***************************************************************************)
EXTENDS Integers, Sequences, FiniteSets, TLC

(***************************************************************************)
(* Bounds of the model.                                                    *)
(***************************************************************************)
MaxCorpus == 2      \* longest corpus the source returns
MaxK == 2           \* largest k a caller passes

Procs == {"p1", "p2"}   \* server processes sharing the database file

(***************************************************************************)
(* Python values.                                                          *)
(***************************************************************************)
\* A dict is a sequence of <<key, value>> pairs (insertion order is kept).
DictKeys(d) == [i \in 1..Len(d) |-> d[i][1]]
DictValues(d) == [i \in 1..Len(d) |-> d[i][2]]

\* DartCorpList.SCHEMA: the columns of the table, in creation order.
SchemaCols == <<"corp_code", "corp_name", "corp_eng_name", "stock_code", "modify_date">>

\* One <list> element of CORPCODE.xml as xmltodict yields it.
CorpDict(code, name) ==
    << <<"corp_code", code>>, <<"corp_name", name>>,
       <<"corp_eng_name", <<"E">> >>, <<"stock_code", <<"0">> >>,
       <<"modify_date", <<"d">> >> >>

Entities ==
    { CorpDict(<<"1">>, <<"a", "b">>),
      CorpDict(<<"2">>, <<"a", "b", "c">>),
      CorpDict(<<"3">>, <<"a">>) }

RECURSIVE SeqsOfLen(_, _)
SeqsOfLen(S, n) ==
    IF n = 0 THEN { <<>> }
    ELSE { <<x>> \o s : x \in S, s \in SeqsOfLen(S, n - 1) }

\* parsed["result"]["list"]: xmltodict yields a list for two or more <list>
\* elements and a bare dict for exactly one.
PyList(items) == [shape |-> "list", items |-> items]
PyDict(d) == [shape |-> "dict", items |-> <<d>>]

FetchedData ==
    { PyDict(d) : d \in Entities }
    \cup { PyList(s) : s \in UNION { SeqsOfLen(Entities, n) : n \in 2..MaxCorpus } }

\* len(data)
PyLen(data) ==
    IF data.shape = "list" THEN Len(data.items) ELSE Len(data.items[1])

\* `not data`
PyFalsy(data) == PyLen(data) = 0

(***************************************************************************)
(* The durable table.                                                      *)
(***************************************************************************)
NoTable == [exists |-> FALSE, rows |-> <<>>]
EmptyTable == [exists |-> TRUE, rows |-> <<>>]

NullValue == <<"N", "U", "L", "L">>

\* The row an INSERT with column list cols and bound values vals stores.
RowOf(cols, vals) ==
    [c \in {SchemaCols[i] : i \in 1..Len(SchemaCols)} |->
        IF \E i \in 1..Len(cols) : cols[i] = c
        THEN vals[CHOOSE i \in 1..Len(cols) : cols[i] = c]
        ELSE NullValue]

\* DROP TABLE IF EXISTS: run outside any transaction (the sqlite3 module
\* opens one only before INSERT/UPDATE/DELETE/REPLACE), hence durable at once.
DropTableIfExists(tbl) == NoTable

\* CREATE TABLE IF NOT EXISTS: durable at once, keeps an existing table.
CreateTableIfNotExists(tbl) == IF tbl.exists THEN tbl ELSE EmptyTable

\* Variant of ExecuteMany that binds the values of the first record for
\* every row.
RECURSIVE ExecuteManyFirstValues(_, _, _, _)
ExecuteManyFirstValues(rows, cols, valuesList, i) ==
    IF i > Len(valuesList) THEN [err |-> "none", rows |-> rows]
    ELSE IF Len(valuesList[i]) # Len(cols)
         THEN [err |-> "ProgrammingError", rows |-> rows]
         ELSE ExecuteManyFirstValues(Append(rows, RowOf(cols, valuesList[1])),
                                     cols, valuesList, i + 1)

\* SQLiteDB.insert_many_dicts on the connection's view tbl of the table.
\* Result: the error raised ("none" if none) and the rows of the table as the
\* open transaction sees them afterwards.
RECURSIVE ExecuteMany(_, _, _, _)
ExecuteMany(rows, cols, valuesList, i) ==
    IF i > Len(valuesList) THEN [err |-> "none", rows |-> rows]
    ELSE IF Len(valuesList[i]) # Len(cols)
         THEN [err |-> "ProgrammingError", rows |-> rows]
         ELSE ExecuteMany(Append(rows, RowOf(cols, valuesList[i])), cols, valuesList, i + 1)

\* Variant of InsertManyDicts that returns without error on an empty list.
InsertManyDictsSkipsEmpty(tbl, data, ioFail) ==
    IF PyFalsy(data) THEN [err |-> "none", rows |-> tbl.rows]
    ELSE IF data.shape = "dict" THEN [err |-> "KeyError", rows |-> tbl.rows]
    ELSE LET first_dict == data.items[1]
             columns == DictKeys(first_dict)
             values_list == [i \in 1..Len(data.items) |-> DictValues(data.items[i])]
         IN  IF ioFail \/ ~tbl.exists
                \/ \E i \in 1..Len(columns) :
                       columns[i] \notin {SchemaCols[j] : j \in 1..Len(SchemaCols)}
             THEN [err |-> "OperationalError", rows |-> tbl.rows]
             ELSE ExecuteMany(tbl.rows, columns, values_list, 1)

InsertManyDicts(tbl, data, ioFail) ==
    IF PyFalsy(data) THEN [err |-> "ValueError", rows |-> tbl.rows]
    ELSE IF data.shape = "dict" THEN [err |-> "KeyError", rows |-> tbl.rows]
    ELSE LET first_dict == data.items[1]
             columns == DictKeys(first_dict)
             values_list == [i \in 1..Len(data.items) |-> DictValues(data.items[i])]
         IN  IF ioFail \/ ~tbl.exists
                \/ \E i \in 1..Len(columns) :
                       columns[i] \notin {SchemaCols[j] : j \in 1..Len(SchemaCols)}
             THEN [err |-> "OperationalError", rows |-> tbl.rows]
             ELSE ExecuteMany(tbl.rows, columns, values_list, 1)

\* The rows a bulk insert of the corpus data into an empty table stores.
CorpusRows(data) ==
    [j \in 1..Len(data.items) |-> RowOf(DictKeys(data.items[1]), DictValues(data.items[j]))]

\* Variant of ExitScope whose rollback keeps the rows inserted so far.
ExitScopeRollbackKeeps(durable, pendingRows, bodyErr, commitFail) ==
    IF bodyErr # "none"
    THEN [store |-> [exists |-> durable.exists, rows |-> pendingRows], err |-> bodyErr,
          ops |-> <<"rollback", "close">>]
    ELSE IF commitFail
         THEN [store |-> durable, err |-> "OperationalError", ops |-> <<"commit", "close">>]
         ELSE [store |-> [exists |-> durable.exists, rows |-> pendingRows], err |-> "none",
               ops |-> <<"commit", "close">>]

\* Variant of ExitScope whose commit does not make the pending rows durable.
ExitScopeNoCommit(durable, pendingRows, bodyErr, commitFail) ==
    IF bodyErr # "none"
    THEN [store |-> durable, err |-> bodyErr, ops |-> <<"rollback", "close">>]
    ELSE IF commitFail
         THEN [store |-> durable, err |-> "OperationalError", ops |-> <<"commit", "close">>]
         ELSE [store |-> durable, err |-> "none", ops |-> <<"commit", "close">>]

\* Variant of ExitScope whose rollback leaves the table without rows.
ExitScopeRollbackClears(durable, pendingRows, bodyErr, commitFail) ==
    IF bodyErr # "none"
    THEN [store |-> [exists |-> durable.exists, rows |-> <<>>], err |-> bodyErr,
          ops |-> <<"rollback", "close">>]
    ELSE IF commitFail
         THEN [store |-> durable, err |-> "OperationalError", ops |-> <<"commit", "close">>]
         ELSE [store |-> [exists |-> durable.exists, rows |-> pendingRows], err |-> "none",
               ops |-> <<"commit", "close">>]

\* Variant of ExitScope that closes the connection on the commit path only.
ExitScopeLeavesOpen(durable, pendingRows, bodyErr, commitFail) ==
    IF bodyErr # "none"
    THEN [store |-> durable, err |-> bodyErr, ops |-> <<"rollback">>]
    ELSE IF commitFail
         THEN [store |-> durable, err |-> "OperationalError", ops |-> <<"commit">>]
         ELSE [store |-> [exists |-> durable.exists, rows |-> pendingRows], err |-> "none",
               ops |-> <<"commit", "close">>]

\* SQLiteDB.__exit__: commit when the body raised nothing, rollback otherwise
\* (a failing rollback is logged and swallowed); close in the finally clause;
\* the body's error propagates (__exit__ returns None), a failed commit raises.
\* ops: the connection operations attempted, in order.
ExitScope(durable, pendingRows, bodyErr, commitFail) ==
    IF bodyErr # "none"
    THEN [store |-> durable, err |-> bodyErr, ops |-> <<"rollback", "close">>]
    ELSE IF commitFail
         THEN [store |-> durable, err |-> "OperationalError", ops |-> <<"commit", "close">>]
         ELSE [store |-> [exists |-> durable.exists, rows |-> pendingRows], err |-> "none",
               ops |-> <<"commit", "close">>]

\* The handle DB_INSTANCE of a process: conn is the state of the connection
\* self.conn refers to, live the number of connections opened through the
\* handle and not closed, exit the operations of the last __exit__.
NoHandle == [conn |-> "none", live |-> 0, exit |-> <<>>]

\* SQLiteDB.__enter__: self.conn = sqlite3.connect(...)
Enter(h) == [conn |-> "open", live |-> h.live + 1, exit |-> <<>>]

\* The handle after an __exit__ that attempted ops.
AfterExit(h, ops) ==
    IF \E i \in 1..Len(ops) : ops[i] = "close"
    THEN [conn |-> "closed", live |-> h.live - 1, exit |-> ops]
    ELSE [h EXCEPT !.exit = ops]

(***************************************************************************)
(* Text: the LIKE operator of SQLite and the tokenizer of TfidfVectorizer.  *)
(***************************************************************************)
\* ASCII lower-casing (LIKE folds ASCII case; TfidfVectorizer lowercases).
Lower(c) ==
    CASE c = "A" -> "a"
      [] c = "B" -> "b"
      [] c = "C" -> "c"
      [] c = "Z" -> "z"
      [] OTHER -> c

\* \w of the token pattern: letters, digits and the underscore.
IsWordChar(c) == Lower(c) \in {"a", "b", "c", "z", "0", "1", "_"}

\* Variant of Like in which % matches one or more characters, never none.
RECURSIVE LikePercentNonEmpty(_, _)
LikePercentNonEmpty(pattern, text) ==
    IF pattern = <<>> THEN text = <<>>
    ELSE IF Head(pattern) = "%"
         THEN text # <<>> /\ (LikePercentNonEmpty(Tail(pattern), Tail(text))
                                \/ LikePercentNonEmpty(pattern, Tail(text)))
    ELSE IF text = <<>> THEN FALSE
    ELSE IF Head(pattern) = "_" THEN LikePercentNonEmpty(Tail(pattern), Tail(text))
    ELSE Lower(Head(pattern)) = Lower(Head(text))
         /\ LikePercentNonEmpty(Tail(pattern), Tail(text))

\* Variant of Like that compares letters with their case (GLOB-like).
RECURSIVE LikeCaseSensitive(_, _)
LikeCaseSensitive(pattern, text) ==
    IF pattern = <<>> THEN text = <<>>
    ELSE IF Head(pattern) = "%"
         THEN LikeCaseSensitive(Tail(pattern), text)
              \/ (text # <<>> /\ LikeCaseSensitive(pattern, Tail(text)))
    ELSE IF text = <<>> THEN FALSE
    ELSE IF Head(pattern) = "_" THEN LikeCaseSensitive(Tail(pattern), Tail(text))
    ELSE Head(pattern) = Head(text) /\ LikeCaseSensitive(Tail(pattern), Tail(text))

\* text LIKE pattern: % matches any run, _ any one character.
RECURSIVE Like(_, _)
Like(pattern, text) ==
    IF pattern = <<>> THEN text = <<>>
    ELSE IF Head(pattern) = "%"
         THEN Like(Tail(pattern), text) \/ (text # <<>> /\ Like(pattern, Tail(text)))
    ELSE IF text = <<>> THEN FALSE
    ELSE IF Head(pattern) = "_" THEN Like(Tail(pattern), Tail(text))
    ELSE Lower(Head(pattern)) = Lower(Head(text)) /\ Like(Tail(pattern), Tail(text))

\* Tokens of a document: maximal runs of two or more word characters,
\* lower-cased (token_pattern (?u)\b\w\w+\b).
RECURSIVE TokensFrom(_, _, _)
TokensFrom(text, i, run) ==
    IF i > Len(text)
    THEN IF Len(run) >= 2 THEN {run} ELSE {}
    ELSE IF IsWordChar(text[i])
         THEN TokensFrom(text, i + 1, Append(run, Lower(text[i])))
         ELSE (IF Len(run) >= 2 THEN {run} ELSE {}) \cup TokensFrom(text, i + 1, <<>>)

Tokens(text) == TokensFrom(text, 1, <<>>)

\* fit_transform raises ValueError (empty vocabulary) when no document has a token.
VectorizeFails(all_names) ==
    \A i \in 1..Len(all_names) : Tokens(all_names[i]) = {}

\* Cosine similarity of the tf-idf vectors of two documents that have at most
\* one distinct token each (every name and query of the model): 1 when both
\* have the same token, 0 otherwise (a document without tokens is the zero vector).
CosineScore(query, name) ==
    IF Tokens(query) \cap Tokens(name) # {} THEN 1 ELSE 0

\* Variant of InsertStable that places an element before the elements of
\* equal score (the order a reversed ascending sort would give).
InsertBeforeTies(sorted, x) ==
    LET idx == { i \in 1..Len(sorted) : sorted[i][1] <= x[1] }
    IN  IF idx = {} THEN Append(sorted, x)
        ELSE LET m == CHOOSE i \in idx : \A j \in idx : i <= j
             IN  SubSeq(sorted, 1, m - 1) \o <<x>> \o SubSeq(sorted, m, Len(sorted))

\* list.sort(key=score, reverse=True): stable, descending.
RECURSIVE InsertStable(_, _)
InsertStable(sorted, x) ==
    IF sorted = <<>> THEN <<x>>
    ELSE IF Head(sorted)[1] >= x[1]
         THEN <<Head(sorted)>> \o InsertStable(Tail(sorted), x)
         ELSE <<x>> \o sorted

RECURSIVE SortDescFrom(_, _, _)
SortDescFrom(sorted, scored, i) ==
    IF i > Len(scored) THEN sorted
    ELSE SortDescFrom(InsertStable(sorted, scored[i]), scored, i + 1)

\* Variant of SortDesc that leaves the scored list in retrieval order.
SortDescNone(scored) == scored

SortDesc(scored) == SortDescFrom(<<>>, scored, 1)

\* seq[:k]
SliceTo(seq, k) ==
    IF k >= 0
    THEN SubSeq(seq, 1, IF k < Len(seq) THEN k ELSE Len(seq))
    ELSE SubSeq(seq, 1, IF Len(seq) + k > 0 THEN Len(seq) + k ELSE 0)

(***************************************************************************)
(* Resolution (tools/find_company_by_name.py).                             *)
(***************************************************************************)
\* Variant of SelectColumns that selects every column (SELECT *).
SelectAllColumns(row) == row

\* SELECT corp_code, corp_name, corp_eng_name, stock_code
SelectColumns(row) ==
    [c \in {"corp_code", "corp_name", "corp_eng_name", "stock_code"} |-> row[c]]

RECURSIVE SelectWhere(_, _, _)
SelectWhere(rows, pattern, i) ==
    IF i > Len(rows) THEN <<>>
    ELSE (IF Like(pattern, rows[i]["corp_name"]) THEN <<SelectColumns(rows[i])>> ELSE <<>>)
         \o SelectWhere(rows, pattern, i + 1)


\* Variant of FetchAll that swallows the storage error and yields no rows.
FetchAllSwallows(tbl, search_term, ioFail) ==
    IF ioFail \/ ~tbl.exists
    THEN [err |-> "none", rows |-> <<>>]
    ELSE [err |-> "none", rows |-> SelectWhere(tbl.rows, search_term, 1)]

\* Variant of FetchAll that reads the first matching row only (fetchone).
FetchAllFirstRow(tbl, search_term, ioFail) ==
    IF ioFail \/ ~tbl.exists
    THEN [err |-> "OperationalError", rows |-> <<>>]
    ELSE LET all == SelectWhere(tbl.rows, search_term, 1)
         IN  [err |-> "none", rows |-> IF all = <<>> THEN <<>> ELSE <<all[1]>>]

\* SQLiteDB.fetch_all for the candidate query, on the committed table.
FetchAll(tbl, search_term, ioFail) ==
    IF ioFail \/ ~tbl.exists
    THEN [err |-> "OperationalError", rows |-> <<>>]
    ELSE [err |-> "none", rows |-> SelectWhere(tbl.rows, search_term, 1)]


\* Variant of RankCandidates without the `if not db_results` guard: the
\* vectorizer runs on the query alone and the except branch returns db_results.
RankCandidatesUnguarded(corp_name, k, db_results) ==
    LET candidate_corp_names == [i \in 1..Len(db_results) |-> db_results[i]["corp_name"]]
        all_names == <<corp_name>> \o candidate_corp_names
        scored_results == [i \in 1..Len(db_results) |->
                              <<CosineScore(corp_name, candidate_corp_names[i]), db_results[i]>>]
        sorted == SortDesc(scored_results)
    IN  IF VectorizeFails(all_names) \/ db_results = <<>>
        THEN [result |-> db_results, vectorized |-> TRUE, path |-> "fallback"]
        ELSE [result |-> SliceTo([i \in 1..Len(sorted) |-> sorted[i][2]], k),
              vectorized |-> TRUE, path |-> "ranked"]

\* The ranking of lines 42-57: result and whether the vectorizer was called.
RankCandidates(corp_name, k, db_results) ==
    IF db_results = <<>>
    THEN [result |-> <<>>, vectorized |-> FALSE, path |-> "empty"]
    ELSE LET candidate_corp_names == [i \in 1..Len(db_results) |-> db_results[i]["corp_name"]]
             all_names == <<corp_name>> \o candidate_corp_names
             scored_results == [i \in 1..Len(db_results) |->
                                   <<CosineScore(corp_name, candidate_corp_names[i]), db_results[i]>>]
             sorted == SortDesc(scored_results)
         IN  IF VectorizeFails(all_names)
             THEN [result |-> db_results, vectorized |-> TRUE, path |-> "fallback"]
             ELSE [result |-> SliceTo([i \in 1..Len(sorted) |-> sorted[i][2]], k),
                   vectorized |-> TRUE, path |-> "ranked"]

\* find_company_corp_code_by_name(corp_name, k) against the committed table.
FindCompany(tbl, corp_name, k, fault) ==
    LET search_term == <<"%">> \o corp_name \o <<"%">>
        fetched == FetchAll(tbl, search_term, fault = "io")
        scope == ExitScope(tbl, tbl.rows, fetched.err, FALSE)
        ranked == RankCandidates(corp_name, k, fetched.rows)
    IN  IF fault = "connect"
        THEN [outcome |-> "error", opened |-> TRUE, executed |-> FALSE, store |-> tbl,
              candidates |-> <<>>, result |-> <<>>, vectorized |-> FALSE, path |-> "none",
              entered |-> FALSE, exit |-> <<>>]
        ELSE IF scope.err # "none"
        THEN [outcome |-> "error", opened |-> TRUE, executed |-> TRUE, store |-> scope.store,
              candidates |-> <<>>, result |-> <<>>, vectorized |-> FALSE, path |-> "none",
              entered |-> TRUE, exit |-> scope.ops]
        ELSE [outcome |-> "ok", opened |-> TRUE, executed |-> TRUE, store |-> scope.store,
              candidates |-> fetched.rows, result |-> ranked.result,
              vectorized |-> ranked.vectorized, path |-> ranked.path,
              entered |-> TRUE, exit |-> scope.ops]

(***************************************************************************)
(* State.                                                                  *)
(***************************************************************************)
VARIABLES
    store,      \* committed content of the table in the database file
    pc,         \* position of each server process
    ready,      \* the process's startup synchronisation returned normally
    syncRuns,   \* synchronisation runs started by the process since launch
    prior,      \* the table as it was when the process's current run started
    syncObs,    \* outcome of the synchronisation run that just ended
    res,        \* outcome of the resolve call just served
    handle,     \* the store handle DB_INSTANCE of each process
    api         \* outcome of the report API call just made

vars == <<store, pc, ready, syncRuns, prior, syncObs, res, handle, api>>

NoApi == [proc |-> "none", http |-> "none", body |-> [kind |-> "none"],
          raised |-> FALSE, result |-> <<>>]

NoSnap == [valid |-> FALSE, store |-> NoTable]
Snap(tbl) == [valid |-> TRUE, store |-> tbl]

NoSyncObs == [proc |-> "none", stage |-> "none", err |-> "none",
              data |-> PyList(<<>>), fetched |-> 0, count |-> 0, prior |-> NoSnap]
NoRes == [proc |-> "none", query |-> <<>>, k |-> 0, fault |-> "none", ready |-> FALSE,
          outcome |-> "none", opened |-> FALSE, executed |-> FALSE,
          candidates |-> <<>>, result |-> <<>>, vectorized |-> FALSE,
          path |-> "none", before |-> NoTable]

\* A run's snapshot stays comparable only while no other process writes.
Invalidate(p, newStore) ==
    [q \in Procs |-> IF q # p /\ newStore # store THEN NoSnap ELSE prior[q]]

\* No outcome is waiting to be reported.
Quiet == syncObs.proc = "none" /\ res.proc = "none" /\ api.proc = "none"

Init ==
    /\ store = NoTable
    /\ pc = [p \in Procs |-> "boot"]
    /\ ready = [p \in Procs |-> FALSE]
    /\ syncRuns = [p \in Procs |-> 0]
    /\ prior = [p \in Procs |-> NoSnap]
    /\ syncObs = NoSyncObs
    /\ res = NoRes
    /\ handle = [p \in Procs |-> NoHandle]
    /\ api = NoApi

(***************************************************************************)
(* Synchronisation (settings/startup.py), called once at module load.      *)
(***************************************************************************)
FetchOutcomes == {"ok", "network_error", "bad_status", "bad_archive", "missing_file", "no_list"}

\* get_corp_list(): the error it raises, "none" when it returns the corpus.
GetCorpList(out) == IF out = "ok" THEN "none" ELSE out


\* Variant of Abort in which the startup error is caught and the process
\* goes on to mcp.run().
AbortKeepsServing(p, stage, err, snap, newStore) ==
    /\ pc' = [pc EXCEPT ![p] = "serving"]
    /\ store' = newStore
    /\ syncObs' = [proc |-> p, stage |-> stage, err |-> err, data |-> PyList(<<>>),
                   fetched |-> 0, count |-> 0, prior |-> snap]
    /\ prior' = [Invalidate(p, newStore) EXCEPT ![p] = NoSnap]
    /\ UNCHANGED ready

\* Variant of Abort in which the failed run is started again.
AbortRetries(p, stage, err, snap, newStore) ==
    /\ pc' = [pc EXCEPT ![p] = "boot"]
    /\ store' = newStore
    /\ syncObs' = [proc |-> p, stage |-> stage, err |-> err, data |-> PyList(<<>>),
                   fetched |-> 0, count |-> 0, prior |-> snap]
    /\ prior' = [Invalidate(p, newStore) EXCEPT ![p] = NoSnap]
    /\ UNCHANGED ready

\* An error leaving fetch_dart_corp_list ends module load: the process dies
\* before mcp.run() is reached.
Abort(p, stage, err, snap, newStore) ==
    /\ pc' = [pc EXCEPT ![p] = "aborted"]
    /\ store' = newStore
    /\ syncObs' = [proc |-> p, stage |-> stage, err |-> err, data |-> PyList(<<>>),
                   fetched |-> 0, count |-> 0, prior |-> snap]
    /\ prior' = [Invalidate(p, newStore) EXCEPT ![p] = NoSnap]
    /\ UNCHANGED ready

\* A statement of the run succeeded; the run goes on inside the with block.
Proceed(p, next, snap, newStore) ==
    /\ pc' = [pc EXCEPT ![p] = next]
    /\ store' = newStore
    /\ syncObs' = NoSyncObs
    /\ prior' = [Invalidate(p, newStore) EXCEPT ![p] = snap]
    /\ UNCHANGED ready


\* Variant of Fetch in which the table is dropped before the corpus is fetched.
FetchAfterDrop(p) ==
    /\ Quiet
    /\ pc[p] = "boot"
    /\ syncRuns' = [syncRuns EXCEPT ![p] = @ + 1]
    /\ res' = NoRes
    /\ UNCHANGED <<handle, api>>
    /\ \E out \in FetchOutcomes :
          IF GetCorpList(out) = "none"
          THEN Proceed(p, "fetched", Snap(store), store)
          ELSE Abort(p, "fetch", GetCorpList(out), Snap(store), DropTableIfExists(store))

\* data = get_corp_list()
Fetch(p) ==
    /\ Quiet
    /\ pc[p] = "boot"
    /\ syncRuns' = [syncRuns EXCEPT ![p] = @ + 1]
    /\ res' = NoRes
    /\ UNCHANGED <<handle, api>>
    /\ \E out \in FetchOutcomes :
          IF GetCorpList(out) = "none"
          THEN Proceed(p, "fetched", Snap(store), store)
          ELSE Abort(p, "fetch", GetCorpList(out), Snap(store), store)

\* with DB_INSTANCE as db: db.create_table(..., drop_if_exists=True), DROP part
EnterDrop(p) ==
    /\ Quiet
    /\ pc[p] = "fetched"
    /\ res' = NoRes
    /\ UNCHANGED syncRuns
    /\ UNCHANGED api
    /\ \E fault \in {"none", "connect", "io"} :
          IF fault = "connect"
          THEN /\ Abort(p, "connect", "OperationalError", prior[p], store)
               /\ UNCHANGED handle
          ELSE IF fault = "io"
          THEN LET scope == ExitScope(store, store.rows, "OperationalError", FALSE)
               IN  /\ Abort(p, "drop", "OperationalError", prior[p], scope.store)
                   /\ handle' = [handle EXCEPT ![p] = AfterExit(Enter(@), scope.ops)]
          ELSE /\ Proceed(p, "dropped", prior[p], DropTableIfExists(store))
               /\ handle' = [handle EXCEPT ![p] = Enter(@)]

\* db.create_table(...), CREATE part
Create(p) ==
    /\ Quiet
    /\ pc[p] = "dropped"
    /\ res' = NoRes
    /\ UNCHANGED syncRuns
    /\ UNCHANGED api
    /\ \E fault \in {"none", "io"} :
          IF fault = "io"
          THEN LET scope == ExitScope(store, store.rows, "OperationalError", FALSE)
               IN  /\ Abort(p, "create", "OperationalError", prior[p], scope.store)
                   /\ handle' = [handle EXCEPT ![p] = AfterExit(@, scope.ops)]
          ELSE /\ Proceed(p, "created", prior[p], CreateTableIfNotExists(store))
               /\ UNCHANGED handle


\* Variants of CountMismatch: no check at all; only missing rows are reported.
CountMismatchOff(count_value, data) == FALSE
CountMismatchLess(count_value, data) == count_value < PyLen(data)

\* count_value != len(data)
CountMismatch(count_value, data) == count_value # PyLen(data)

\* db.insert_many_dicts(...); the COUNT(1) check; leaving the with block, for
\* a record list drawn from corpus.
BulkReplace(p, corpus) ==
    /\ Quiet
    /\ pc[p] = "created"
    /\ res' = NoRes
    /\ UNCHANGED <<syncRuns, api>>
    /\ \E data \in corpus, fault \in {"none", "io", "commit"} :
          LET ins == InsertManyDicts(store, data, fault = "io")
              count_value == Len(ins.rows)
              bodyErr == IF ins.err # "none" THEN ins.err
                         ELSE IF CountMismatch(count_value, data) THEN "Exception"
                         ELSE "none"
              out == ExitScope(store, ins.rows, bodyErr, fault = "commit")
              stage == IF ins.err # "none" THEN "insert"
                       ELSE IF bodyErr # "none" THEN "count" ELSE "commit"
          IN  /\ store' = out.store
              /\ handle' = [handle EXCEPT ![p] = AfterExit(@, out.ops)]
              /\ prior' = [Invalidate(p, out.store) EXCEPT ![p] = NoSnap]
              /\ syncObs' = [proc |-> p, stage |-> stage, err |-> out.err,
                             data |-> IF out.err = "none" THEN data ELSE PyList(<<>>),
                             fetched |-> PyLen(data), count |-> count_value,
                             prior |-> prior[p]]
              /\ IF out.err = "none"
                 THEN /\ pc' = [pc EXCEPT ![p] = "serving"]
                      /\ ready' = [ready EXCEPT ![p] = TRUE]
                 ELSE /\ pc' = [pc EXCEPT ![p] = "aborted"]
                      /\ UNCHANGED ready

\* The last statements of a run, on the corpus get_corp_list returned.
InsertFinish(p) == BulkReplace(p, FetchedData)

(***************************************************************************)
(* Serving (app.py).                                                       *)
(***************************************************************************)
\* Inputs of the resolve tool.
Queries == { <<>>, <<" ">>, <<"a">>, <<"a", "b">>, <<"A", "B">>, <<"z">> }
Ks == (-1)..MaxK

\* Variant of ServeCall with a suspension point inside the with block: the
\* call yields to the scheduler with its connection open, and other calls of
\* the process run on the shared handle before it closes.
ServeCallSuspends(p, queries, ks, faults) ==
    /\ Quiet
    /\ pc[p] = "serving"
    /\ \E corp_name \in queries, k \in ks, fault \in faults :
          LET out == FindCompany(store, corp_name, k, fault)
          IN  /\ store' = out.store
              /\ handle' = [handle EXCEPT ![p] = IF out.entered THEN Enter(@) ELSE @]
              /\ prior' = Invalidate(p, out.store)
              /\ res' = [proc |-> p, query |-> corp_name, k |-> k, fault |-> fault,
                         ready |-> ready[p],
                         outcome |-> out.outcome, opened |-> out.opened,
                         executed |-> out.executed, candidates |-> out.candidates,
                         result |-> out.result, vectorized |-> out.vectorized,
                         path |-> out.path, before |-> store]
    /\ syncObs' = NoSyncObs
    /\ UNCHANGED <<pc, ready, syncRuns, api>>

\* One call of the tool find_company_by_name with inputs drawn from the given
\* sets.  The coroutine has no await between entry and return, so the call is
\* one step of its process; its reads are one SELECT statement.
ServeCall(p, queries, ks, faults) ==
    /\ Quiet
    /\ pc[p] = "serving"
    /\ \E corp_name \in queries, k \in ks, fault \in faults :
          LET out == FindCompany(store, corp_name, k, fault)
          IN  /\ store' = out.store
              /\ handle' = [handle EXCEPT ![p] =
                                IF out.entered THEN AfterExit(Enter(@), out.exit) ELSE @]
              /\ prior' = Invalidate(p, out.store)
              /\ res' = [proc |-> p, query |-> corp_name, k |-> k, fault |-> fault,
                         ready |-> ready[p],
                         outcome |-> out.outcome, opened |-> out.opened,
                         executed |-> out.executed, candidates |-> out.candidates,
                         result |-> out.result, vectorized |-> out.vectorized,
                         path |-> out.path, before |-> store]
    /\ syncObs' = NoSyncObs
    /\ UNCHANGED <<pc, ready, syncRuns, api>>

\* Variant of Resolve in which a call fails with a storage error (database is
\* locked) while another process is serving calls on the same file.
ResolveExclusive(p) ==
    /\ Quiet
    /\ pc[p] = "serving"
    /\ \E corp_name \in Queries, k \in Ks, fault \in {"none", "connect", "io"} :
          LET locked == \E q \in Procs \ {p} : pc[q] = "serving"
              out == FindCompany(store, corp_name, k, IF locked THEN "connect" ELSE fault)
          IN  /\ store' = out.store
              /\ handle' = [handle EXCEPT ![p] =
                                IF out.entered THEN AfterExit(Enter(@), out.exit) ELSE @]
              /\ prior' = Invalidate(p, out.store)
              /\ res' = [proc |-> p, query |-> corp_name, k |-> k, fault |-> fault,
                         ready |-> ready[p],
                         outcome |-> out.outcome, opened |-> out.opened,
                         executed |-> out.executed, candidates |-> out.candidates,
                         result |-> out.result, vectorized |-> out.vectorized,
                         path |-> out.path, before |-> store]
    /\ syncObs' = NoSyncObs
    /\ UNCHANGED <<pc, ready, syncRuns, api>>

\* The tool find_company_by_name, served only once mcp.run() was reached.
Resolve(p) == ServeCall(p, Queries, Ks, {"none", "connect", "io"})

\* Report endpoint calls (api_clients/base/dart.py).  The HTTP exchange ends
\* in a network error, an error status or a 200 response; the body of a
\* response is not JSON, JSON that is not an object, or an object with an
\* optional status and an optional list.
HttpOutcomes == {"network_error", "http_error", "ok"}

ReportLists == { <<>>, <<"r1">>, <<"r1", "r2">> }

Bodies ==
    { [kind |-> "unparsable"], [kind |-> "not_object"] }
    \cup { [kind |-> "object", status |-> st, hasList |-> hl, list |-> l] :
             st \in {"000", "013", "020", "missing"}, hl \in BOOLEAN, l \in ReportLists }

\* Variant of the template without the final `except Exception` clause.
CallRegularReportApiTemplateNoCatchAll(http, body) ==
    IF http = "network_error" THEN [raised |-> FALSE, result |-> <<>>]
    ELSE IF http = "http_error" THEN [raised |-> FALSE, result |-> <<>>]
    ELSE IF body.kind \in {"unparsable", "not_object"}
         THEN [raised |-> TRUE, result |-> <<>>]
    ELSE IF body.status = "000"
         THEN [raised |-> FALSE, result |-> IF body.hasList THEN body.list ELSE <<>>]
    ELSE [raised |-> FALSE, result |-> <<>>]

\* _call_regular_report_api_template: whether it raises, and what it returns.
CallRegularReportApiTemplate(http, body) ==
    IF http = "network_error" THEN [raised |-> FALSE, result |-> <<>>]     \* httpx.RequestError
    ELSE IF http = "http_error" THEN [raised |-> FALSE, result |-> <<>>]   \* HTTPStatusError
    ELSE IF body.kind \in {"unparsable", "not_object"}
         THEN [raised |-> FALSE, result |-> <<>>]      \* json() or data.get raises: Exception
    ELSE IF body.status = "000"
         THEN [raised |-> FALSE, result |-> IF body.hasList THEN body.list ELSE <<>>]
    ELSE IF body.status = "013" THEN [raised |-> FALSE, result |-> <<>>]
    ELSE [raised |-> FALSE, result |-> <<>>]

\* A report tool of a serving process calls the template.
CallReport(p) ==
    /\ Quiet
    /\ pc[p] = "serving"
    /\ \E http \in HttpOutcomes, body \in Bodies :
          LET out == CallRegularReportApiTemplate(http, body)
          IN  api' = [proc |-> p, http |-> http,
                      body |-> IF http = "ok" THEN body ELSE [kind |-> "none"],
                      raised |-> out.raised, result |-> out.result]
    /\ syncObs' = NoSyncObs
    /\ res' = NoRes
    /\ UNCHANGED <<store, pc, ready, syncRuns, prior, handle>>

\* The process ends (or died at startup) and its client launches it again.
Relaunch(p) ==
    /\ Quiet
    /\ pc[p] \in {"serving", "aborted"}
    /\ pc' = [pc EXCEPT ![p] = "boot"]
    /\ ready' = [ready EXCEPT ![p] = FALSE]
    /\ syncRuns' = [syncRuns EXCEPT ![p] = 0]
    /\ prior' = [prior EXCEPT ![p] = NoSnap]
    /\ syncObs' = NoSyncObs
    /\ res' = NoRes
    /\ handle' = [handle EXCEPT ![p] = NoHandle]
    /\ UNCHANGED <<store, api>>

\* The outcome just produced is reported: the tool response is sent, or the
\* startup result is logged.
Report ==
    /\ ~Quiet
    /\ syncObs' = NoSyncObs
    /\ res' = NoRes
    /\ api' = NoApi
    /\ handle' = [p \in Procs |-> [handle[p] EXCEPT !.exit = <<>>]]
    /\ UNCHANGED <<store, pc, ready, syncRuns, prior>>

Next ==
    \/ Report
    \/ \E p \in Procs :
        \/ Fetch(p)
        \/ EnterDrop(p)
        \/ Create(p)
        \/ InsertFinish(p)
        \/ Resolve(p)
        \/ CallReport(p)
        \/ Relaunch(p)

Spec == Init /\ [][Next]_vars

(***************************************************************************)
(* Candidate retrieval on stores whose names hold LIKE wildcards and upper   *)
(* case letters: the store is any table a successful synchronisation (or a  *)
(* failed one, for the empty table) leaves, every process is serving, and   *)
(* the tool is called with the contiguous substrings of the stored names.   *)
(***************************************************************************)
RetrEntities ==
    { CorpDict(<<"1">>, <<"a", "%", "b">>),
      CorpDict(<<"2">>, <<"a", "_">>),
      CorpDict(<<"3">>, <<"A", "b">>),
      CorpDict(<<"4">>, <<"a", "x", "b">>) }

RetrStores ==
    { EmptyTable }
    \cup { [exists |-> TRUE, rows |-> CorpusRows(PyList(s))] :
             s \in UNION { SeqsOfLen(RetrEntities, n) : n \in 2..MaxCorpus } }

\* The contiguous substrings of a text, the empty one included.
Substrings(text) ==
    { SubSeq(text, i, j) : i \in 1..(Len(text) + 1), j \in 0..Len(text) }

RetrQueries ==
    UNION { Substrings(DictValues(e)[2]) : e \in RetrEntities }
    \cup { <<"a", "b">>, <<"A", "B">>, <<"z">> }

RetrInit ==
    /\ store \in RetrStores
    /\ pc = [p \in Procs |-> "serving"]
    /\ ready = [p \in Procs |-> TRUE]
    /\ syncRuns = [p \in Procs |-> 1]
    /\ prior = [p \in Procs |-> NoSnap]
    /\ syncObs = NoSyncObs
    /\ res = NoRes
    /\ handle = [p \in Procs |-> [conn |-> "closed", live |-> 0, exit |-> <<>>]]
    /\ api = NoApi

Retrieve(p) == ServeCall(p, RetrQueries, {MaxK}, {"none"})

RetrNext ==
    \/ Report
    \/ \E p \in Procs : Retrieve(p)

RetrSpec == RetrInit /\ [][RetrNext]_vars

(***************************************************************************)
(* The bulk insert on record lists of any form: records that lack a column, *)
(* records with a field the table does not have, and the empty list.  Both  *)
(* processes have created the table and are about to insert.                *)
(***************************************************************************)
\* A record without modify_date.
ShortDict ==
    << <<"corp_code", <<"4">> >>, <<"corp_name", <<"a", "b">> >>,
       <<"corp_eng_name", <<"E">> >>, <<"stock_code", <<"0">> >> >>

\* A record with the fields in another order and one the table does not have.
OddDict ==
    << <<"corp_name", <<"a", "b">> >>, <<"corp_code", <<"5">> >>,
       <<"corp_eng_name", <<"E">> >>, <<"stock_code", <<"0">> >>,
       <<"remark", <<"d">> >> >>

BulkRecords ==
    { CorpDict(<<"1">>, <<"a", "b">>), CorpDict(<<"3">>, <<"a">>), ShortDict, OddDict }

BulkData ==
    { PyList(<<>>) }
    \cup { PyDict(d) : d \in BulkRecords }
    \cup { PyList(s) : s \in UNION { SeqsOfLen(BulkRecords, n) : n \in 2..MaxCorpus } }

BulkInit ==
    /\ store = EmptyTable
    /\ pc = [p \in Procs |-> "created"]
    /\ ready = [p \in Procs |-> FALSE]
    /\ syncRuns = [p \in Procs |-> 1]
    /\ prior = [p \in Procs |-> NoSnap]
    /\ syncObs = NoSyncObs
    /\ res = NoRes
    /\ handle = [p \in Procs |-> Enter(NoHandle)]
    /\ api = NoApi

BulkInsert(p) == BulkReplace(p, BulkData)

BulkNext ==
    \/ Report
    \/ \E p \in Procs : BulkInsert(p)

BulkSpec == BulkInit /\ [][BulkNext]_vars

(***************************************************************************)
(* Properties.                                                             *)
(***************************************************************************)
StoredCodes(tbl) == { tbl.rows[i]["corp_code"] : i \in 1..Len(tbl.rows) }

FetchedCodes(data) ==
    { RowOf(DictKeys(data.items[j]), DictValues(data.items[j]))["corp_code"] :
        j \in 1..Len(data.items) }

SyncEnded == syncObs.proc # "none"
SyncSucceeded == SyncEnded /\ syncObs.err = "none"
Resolved == res.proc # "none"

\* A query that is empty or consists of white space only.
IsBlank(q) == \A i \in 1..Len(q) : q[i] = " "

\* The first k elements of seq, for a positive k.
FirstK(seq, k) == SubSeq(seq, 1, IF k < Len(seq) THEN k ELSE Len(seq))

\* C1: when a synchronisation run ends with an error raised by the table drop
\* or by the bulk insert, the store holds exactly what it held when the run
\* started (runs during which no other process wrote).
C1_RollbackRestoresPrior ==
    (SyncEnded /\ syncObs.err # "none" /\ syncObs.stage \in {"drop", "insert"}
       /\ syncObs.prior.valid)
    => store.rows = syncObs.prior.store.rows

\* C2: a run that completes successfully leaves the store with as many rows as
\* records were fetched, and a run whose post-insert count differs from the
\* fetched count ends with the synchronisation error and an aborted startup.
C2_CountInvariant ==
    SyncEnded =>
        /\ syncObs.err = "none" =>
              store.exists /\ Len(store.rows) = syncObs.fetched
        /\ (syncObs.stage \in {"count", "commit"} /\ syncObs.count # syncObs.fetched) =>
              syncObs.err = "Exception" /\ pc[syncObs.proc] = "aborted"

C2_Witness ==
    SyncSucceeded /\ syncObs.fetched >= 2 /\ Len(store.rows) = syncObs.fetched

\* C3: a process runs the synchroniser exactly once, at startup; a resolve call
\* is served only by a process whose synchronisation completed successfully,
\* and a failed synchronisation leaves the process aborted, never serving.
C3_SyncBeforeServe ==
    /\ \A p \in Procs :
          /\ syncRuns[p] = (IF pc[p] = "boot" THEN 0 ELSE 1)
          /\ pc[p] = "serving" => ready[p]
          /\ pc[p] = "aborted" => ~ready[p]
    /\ Resolved => res.ready /\ pc[res.proc] = "serving"
    /\ (SyncEnded /\ syncObs.err # "none") =>
          pc[syncObs.proc] = "aborted" /\ ~ready[syncObs.proc]

C3_Witness == Resolved /\ res.ready /\ syncRuns[res.proc] = 1

\* C4: when the source fetch fails, the error propagates (startup aborts) and
\* the store is exactly what it was before the run.
C4_FetchFailureLeavesStore ==
    (SyncEnded /\ syncObs.stage = "fetch") =>
        /\ syncObs.err # "none"
        /\ pc[syncObs.proc] = "aborted"
        /\ syncObs.prior.valid
        /\ store = syncObs.prior.store

C4_Witness ==
    SyncEnded /\ syncObs.stage = "fetch" /\ syncObs.err = "network_error"
    /\ store.rows # <<>> /\ store = syncObs.prior.store

\* C5: the sequence a resolve call returns has at most k elements, for every
\* query, every integer k and every store content.
C5_TopKBound ==
    (Resolved /\ res.outcome = "ok") => Len(res.result) <= res.k

\* C6: an empty or white-space-only query, or a non-positive k, is rejected
\* with an error before a store connection is opened or a query executed.
C6_InvalidInputRejected ==
    (Resolved /\ (IsBlank(res.query) \/ res.k <= 0)) =>
        res.outcome = "error" /\ ~res.opened /\ ~res.executed

\* C7: when vectorisation fails for a non-empty candidate list, resolve returns
\* without error the candidates in retrieval order, truncated to the first k
\* (k positive; a non-positive k is the subject of C6).
C7_FallbackTruncates ==
    (Resolved /\ res.path = "fallback") =>
        /\ res.outcome = "ok"
        /\ res.k >= 1 => res.result = FirstK(res.candidates, res.k)

\* C8: when the store cannot be reached or the candidate query fails
\* (connection failure, missing table, query error), resolve ends with an
\* error, never with a result.
C8_StorageErrorPropagates ==
    (Resolved /\ (res.fault # "none" \/ ~res.before.exists)) =>
        res.outcome = "error"

C8_Witness ==
    Resolved /\ res.fault = "none" /\ ~res.before.exists /\ res.outcome = "error"

\* C9: when the candidate retrieval returns no entity, resolve returns the
\* empty sequence without error and without calling the vectoriser.
C9_ZeroCandidates ==
    (Resolved /\ res.outcome = "ok" /\ res.candidates = <<>>) =>
        res.result = <<>> /\ ~res.vectorized

C9_Witness ==
    Resolved /\ res.outcome = "ok" /\ res.candidates = <<>>
    /\ res.before.rows # <<>> /\ res.query = <<"z">>

\* C10: after a successful synchronisation every registry code in the store is
\* a registry code of the fetched corpus: an entity absent from the corpus is
\* absent from the store, whether or not it was there before.
C10_ReplaceSemantics ==
    SyncSucceeded => StoredCodes(store) \subseteq FetchedCodes(syncObs.data)

C10_Witness ==
    /\ SyncSucceeded
    /\ syncObs.prior.valid
    /\ \E c \in StoredCodes(syncObs.prior.store) :
          c \notin FetchedCodes(syncObs.data) /\ c \notin StoredCodes(store)

Min(a, b) == IF a < b THEN a ELSE b

\* The similarity score of a returned or retrieved row to the query.
ScoreOf(query, row) == CosineScore(query, row["corp_name"])

\* The rows of seq whose score to the query is sc, in the order of seq.
WithScore(seq, query, sc) ==
    LET Test(r) == ScoreOf(query, r) = sc
    IN  SelectSeq(seq, Test)

IsPrefix(a, b) == Len(a) <= Len(b) /\ a = SubSeq(b, 1, Len(a))

\* C11: the store a successful run leaves has the row count and the registry
\* codes of the rows of its corpus alone, whatever the store held before; a
\* second run on an unchanged corpus therefore leaves the same count and the
\* same set of codes as the first.
C11_IdempotentResync ==
    SyncSucceeded =>
        /\ Len(store.rows) = Len(CorpusRows(syncObs.data))
        /\ StoredCodes(store) = StoredCodes([exists |-> TRUE, rows |-> CorpusRows(syncObs.data)])

\* The second of two runs in a row on the same corpus.
C11_Witness ==
    /\ SyncSucceeded
    /\ syncObs.prior.valid
    /\ syncObs.prior.store.rows = CorpusRows(syncObs.data)
    /\ Len(store.rows) = Len(syncObs.prior.store.rows)
    /\ StoredCodes(store) = StoredCodes(syncObs.prior.store)

\* C12: the store never holds two rows with the same registry code.
C12_OneRowPerCode ==
    \A i, j \in 1..Len(store.rows) :
        store.rows[i]["corp_code"] = store.rows[j]["corp_code"] => i = j

\* C13: in a returned sequence of length two or more the similarity score of
\* each element is at least that of the next one.
C13_BestMatchFirst ==
    (Resolved /\ res.outcome = "ok" /\ Len(res.result) >= 2) =>
        \A i \in 1..(Len(res.result) - 1) :
            ScoreOf(res.query, res.result[i]) >= ScoreOf(res.query, res.result[i + 1])

\* A ranked result whose order differs from the retrieval order.
C13_Witness ==
    /\ Resolved /\ res.path = "ranked" /\ Len(res.result) >= 2
    /\ ScoreOf(res.query, res.result[1]) > ScoreOf(res.query, res.result[2])
    /\ res.result # res.candidates

\* C14: candidates of equal score appear in the result in the relative order
\* in which the retrieval returned them.
C14_StableRanking ==
    (Resolved /\ res.outcome = "ok") =>
        \A sc \in {0, 1} :
            IsPrefix(WithScore(res.result, res.query, sc),
                     WithScore(res.candidates, res.query, sc))

\* A ranked result with two different entities of equal score.
C14_Witness ==
    /\ Resolved /\ res.path = "ranked" /\ Len(res.result) >= 2
    /\ ScoreOf(res.query, res.result[1]) = ScoreOf(res.query, res.result[2])
    /\ res.result[1] # res.result[2]

\* C15: for a positive k and n retrieved candidates resolve returns exactly
\* min(k, n) entities.
C15_ExactlyMinKN ==
    (Resolved /\ res.outcome = "ok" /\ res.k >= 1) =>
        Len(res.result) = Min(res.k, Len(res.candidates))

C19_ResolveReadOnly ==
    [][ /\ res'.proc # "none" => store' = store
        /\ store' # store =>
              \E p \in Procs : pc[p] \in {"fetched", "dropped", "created"} /\ pc'[p] # pc[p]
      ]_vars

\* A call that ended with a storage error on a store that holds rows.
C19_Witness ==
    /\ Resolved /\ res.outcome = "error" /\ res.fault = "io"
    /\ res.before.rows # <<>> /\ store = res.before

\* C20: a run attempts the source fetch at most once and each statement of the
\* store replacement at most once; a run that failed takes no further step
\* (the process can only be launched again, which starts another run).
C20_NoRetry ==
    [][ \A p \in Procs :
          /\ syncRuns'[p] <= 1
          /\ syncRuns'[p] > syncRuns[p] => pc[p] = "boot"
          /\ pc[p] = "aborted" => pc'[p] \in {"aborted", "boot"}
          /\ (pc[p] = "aborted" /\ pc'[p] = "boot") => syncRuns'[p] = 0 /\ store' = store
          /\ pc[p] = "fetched" => pc'[p] \in {"fetched", "dropped", "aborted"}
          /\ pc[p] = "dropped" => pc'[p] \in {"dropped", "created", "aborted"}
          /\ pc[p] = "created" => pc'[p] \in {"created", "serving", "aborted"}
      ]_vars

\* A run that failed in the bulk insert after one fetch.
C20_Witness ==
    /\ SyncEnded /\ syncObs.stage = "insert" /\ syncObs.err # "none"
    /\ pc[syncObs.proc] = "aborted" /\ syncRuns[syncObs.proc] = 1

\* pat is a contiguous substring of text, letter case respected.
Contains(text, pat) ==
    \E i \in 1..(Len(text) + 1) :
        i + Len(pat) - 1 <= Len(text) /\ SubSeq(text, i, i + Len(pat) - 1) = pat

Fold(text) == [i \in 1..Len(text) |-> Lower(text[i])]

\* pat is a contiguous substring of text up to the case of ASCII letters.
ContainsFold(text, pat) == Contains(Fold(text), Fold(pat))

HasWildcard(pat) == \E i \in 1..Len(pat) : pat[i] \in {"%", "_"}

\* C16: for every stored entity and every contiguous substring of its name,
\* wildcard characters included, the candidate retrieval for that substring
\* includes the entity.
C16_SubstringCompleteness ==
    (Resolved /\ res.outcome = "ok") =>
        \A i \in 1..Len(res.before.rows) :
            Contains(res.before.rows[i]["corp_name"], res.query) =>
                \E j \in 1..Len(res.candidates) :
                    res.candidates[j] = SelectColumns(res.before.rows[i])

\* A retrieval for a substring that holds a wildcard character.
C16_Witness ==
    /\ Resolved /\ res.outcome = "ok" /\ HasWildcard(res.query) /\ Len(res.query) >= 2
    /\ \E i \in 1..Len(res.before.rows) :
          /\ Contains(res.before.rows[i]["corp_name"], res.query)
          /\ \E j \in 1..Len(res.candidates) :
                res.candidates[j] = SelectColumns(res.before.rows[i])

\* C17 as stated: for a pattern without wildcard characters the retrieval
\* returns exactly the entities whose name contains the pattern as a
\* case-sensitive contiguous substring, in storage order.
C17_CaseSensitiveExact ==
    (Resolved /\ res.outcome = "ok" /\ ~HasWildcard(res.query)) =>
        LET Keep(r) == Contains(r["corp_name"], res.query)
            kept == SelectSeq(res.before.rows, Keep)
        IN  res.candidates = [i \in 1..Len(kept) |-> SelectColumns(kept[i])]

\* C17 amended: for a pattern without wildcard characters the retrieval
\* returns exactly the entities whose name contains the pattern as a
\* contiguous substring up to the case of ASCII letters, in storage order; an
\* empty pattern returns every entity of the store.
C17_CaseFoldedExact ==
    (Resolved /\ res.outcome = "ok" /\ ~HasWildcard(res.query)) =>
        LET Keep(r) == ContainsFold(r["corp_name"], res.query)
            kept == SelectSeq(res.before.rows, Keep)
        IN  /\ res.candidates = [i \in 1..Len(kept) |-> SelectColumns(kept[i])]
            /\ res.query = <<>> => Len(res.candidates) = Len(res.before.rows)

\* A retrieval that returns an entity matching only up to letter case and
\* leaves another entity out.
C17_Witness ==
    /\ Resolved /\ res.outcome = "ok" /\ ~HasWildcard(res.query) /\ res.query # <<>>
    /\ \E j \in 1..Len(res.candidates) :
          /\ ContainsFold(res.candidates[j]["corp_name"], res.query)
          /\ ~Contains(res.candidates[j]["corp_name"], res.query)
    /\ Len(res.candidates) < Len(res.before.rows)

\* The {registry_code, name, name_foreign, ticker} projection of a stored row.
Projection(row) ==
    [c \in {"corp_code", "corp_name", "corp_eng_name", "stock_code"} |-> row[c]]

\* The stored rows whose name contains the query up to ASCII case, projected,
\* in storage order (queries without wildcard characters).
AllMatches(tbl, query) ==
    LET Keep(r) == ContainsFold(r["corp_name"], query)
        kept == SelectSeq(tbl.rows, Keep)
    IN  [i \in 1..Len(kept) |-> Projection(kept[i])]

\* Number of occurrences of x in seq.
Count(seq, x) == Cardinality({ i \in 1..Len(seq) : seq[i] = x })

Range(seq) == { seq[i] : i \in 1..Len(seq) }

\* C21: whenever the ranking step of a call runs, the candidate query has been
\* executed and the ranking works on the full list of matching rows, never on
\* a part of it.
C21_RetrievalBeforeRanking ==
    (Resolved /\ res.vectorized) =>
        /\ res.executed /\ res.outcome = "ok"
        /\ res.candidates = AllMatches(res.before, res.query)
        /\ \A x \in Range(res.result) : x \in Range(res.candidates)
        /\ (res.path = "ranked" /\ res.k >= Len(res.candidates)) =>
              Len(res.result) = Len(res.candidates)

\* A ranked call with two or more candidates.
C21_Witness ==
    Resolved /\ res.vectorized /\ res.path = "ranked" /\ Len(res.candidates) >= 2

\* C22: when the store holds an entity whose name equals the query and k >= 1,
\* resolve returns a non-empty sequence whose first element is such an entity.
C22_ExactMatchFirst ==
    (Resolved /\ res.outcome = "ok" /\ res.k >= 1
       /\ \E i \in 1..Len(res.before.rows) : res.before.rows[i]["corp_name"] = res.query) =>
        res.result # <<>> /\ res.result[1]["corp_name"] = res.query

\* The stored row of each fetched record, by the record's own fields.
RecordRows(data) ==
    [j \in 1..Len(data.items) |-> RowOf(DictKeys(data.items[j]), DictValues(data.items[j]))]

\* C24: after a successful synchronisation the multiset of stored rows equals
\* the multiset of fetched records: nothing is filtered out or deduplicated.
C24_NoFilterNoDedup ==
    SyncSucceeded =>
        \A r \in Range(store.rows) \cup Range(RecordRows(syncObs.data)) :
            Count(store.rows, r) = Count(RecordRows(syncObs.data), r)

\* A successful run on a corpus that holds the same record twice.
C24_Witness ==
    /\ SyncSucceeded
    /\ \E r \in Range(store.rows) : Count(store.rows, r) >= 2
    /\ Len(store.rows) = syncObs.fetched

\* C29: every element of a result is the four-field projection of a row the
\* candidate retrieval of the same call returned from the store, and no
\* retrieved row appears in the result more often than it was retrieved.
C29_NoFabrication ==
    (Resolved /\ res.outcome = "ok") =>
        /\ \A x \in Range(res.result) :
              /\ \E i \in 1..Len(res.before.rows) : x = Projection(res.before.rows[i])
              /\ x \in Range(res.candidates)
              /\ Count(res.result, x) <= Count(res.candidates, x)
        /\ Len(res.result) <= Len(res.candidates)

\* A ranked result that is a proper, reordered part of the candidates.
C29_Witness ==
    /\ Resolved /\ res.outcome = "ok" /\ res.path = "ranked"
    /\ res.result # <<>> /\ Len(res.result) < Len(res.candidates)
    /\ res.result[1] # res.candidates[1]

\* The set of fields of a record.
FieldsOf(d) == Range(DictKeys(d))

\* Every record has exactly the schema's columns as fields (and hence the
\* fields of the first record).
AllConform(data) ==
    \A j \in 1..Len(data.items) :
        /\ FieldsOf(data.items[j]) = Range(SchemaCols)
        /\ FieldsOf(data.items[j]) = FieldsOf(data.items[1])

\* The step ends the store replacement of a run (insert, count check, exit).
EndsReplace == syncObs'.proc # "none" /\ syncObs'.stage \in {"insert", "count", "commit"}

\* C23: a bulk replacement given a record that does not conform to the schema
\* ends with an error, and a replacement that ends with an error commits no
\* row of its batch.
C23_NonConformingRejected ==
    [][ EndsReplace =>
          /\ syncObs'.err = "none" => AllConform(syncObs'.data)
          /\ syncObs'.err # "none" => store' = store
      ]_vars

\* C26: a bulk insert of an empty record list raises an error, and no run
\* completes successfully with an empty corpus or with row count 0.
C26_EmptyCorpusRejected ==
    SyncEnded =>
        /\ (syncObs.stage \in {"insert", "count", "commit"} /\ syncObs.fetched = 0) =>
              syncObs.err = "ValueError" /\ pc[syncObs.proc] = "aborted"
        /\ syncObs.err = "none" => syncObs.fetched > 0 /\ Len(store.rows) > 0

\* A run whose record list was empty.
C26_Witness ==
    /\ SyncEnded /\ syncObs.stage = "insert" /\ syncObs.fetched = 0
    /\ syncObs.err = "ValueError" /\ pc[syncObs.proc] = "aborted"

\* C28: the step that ends a store replacement leaves the store either with
\* none of the records of the run added or with all of them added, whether
\* the run succeeds or fails.
C28_AllOrNothing ==
    [][ EndsReplace =>
          \/ store'.rows = store.rows
          \/ /\ Len(store'.rows) = Len(store.rows) + syncObs'.fetched
             /\ IsPrefix(store.rows, store'.rows)
             /\ syncObs'.err = "none"
      ]_vars

\* A run whose insert failed after some of its records had been inserted.
C28_Witness ==
    /\ SyncEnded /\ syncObs.err = "ProgrammingError"
    /\ syncObs.count >= 1 /\ syncObs.count < syncObs.fetched
    /\ store.rows = <<>>

\* What a store scope must have done on exit, given whether its body raised:
\* one of commit and rollback, then close, on a connection that is closed.
ScopeExited(h, bodyRaised) ==
    /\ h.exit = << IF bodyRaised THEN "rollback" ELSE "commit", "close" >>
    /\ h.conn = "closed"
    /\ h.live = 0

\* C25: every exit from a store scope attempts exactly one of commit and
\* rollback, commit if and only if the body raised no error, and closes the
\* connection afterwards; an error of the body still reaches the caller (the
\* run aborts, the call fails).
C25_ScopeExit ==
    /\ (SyncEnded /\ syncObs.stage \in {"drop", "create", "insert", "count", "commit"}) =>
          LET bodyRaised == syncObs.stage # "commit"
          IN  /\ ScopeExited(handle[syncObs.proc], bodyRaised)
              /\ bodyRaised => syncObs.err # "none" /\ pc[syncObs.proc] = "aborted"
    /\ (Resolved /\ res.executed) =>
          LET bodyRaised == res.fault = "io" \/ ~res.before.exists
          IN  /\ ScopeExited(handle[res.proc], bodyRaised)
              /\ bodyRaised <=> res.outcome = "error"

\* A run whose insert raised: rolled back, closed, and the run aborted.
C25_Witness ==
    /\ SyncEnded /\ syncObs.stage = "insert" /\ syncObs.err # "none"
    /\ handle[syncObs.proc].exit = <<"rollback", "close">>
    /\ handle[syncObs.proc].conn = "closed"
    /\ pc[syncObs.proc] = "aborted"

\* A report call was just made.
Called == api.proc # "none"

\* C27: the report call template never raises; it returns the list of the
\* response when the HTTP call succeeded and the body's status is "000", and
\* the empty list for every other outcome.
C27_TemplateNeverRaises ==
    Called =>
        /\ ~api.raised
        /\ IF api.http = "ok" /\ api.body.kind = "object" /\ api.body.status = "000"
           THEN api.result = (IF api.body.hasList THEN api.body.list ELSE <<>>)
           ELSE api.result = <<>>

\* A 200 response whose body is not JSON: the call returns the empty list.
C27_Witness ==
    /\ Called /\ api.http = "ok" /\ api.body.kind = "unparsable"
    /\ ~api.raised /\ api.result = <<>>

\* C30: at most one connection is open on the handle of a process at any
\* time; between two steps of a process a connection is open only inside a
\* synchronisation run, never while the process serves calls; and the store
\* operation of a resolve call ran on a connection the call opened and closed.
C30_OneConnectionPerHandle ==
    /\ \A p \in Procs :
          /\ handle[p].live <= 1
          /\ pc[p] \in {"dropped", "created"} =>
                handle[p].conn = "open" /\ handle[p].live = 1
          /\ pc[p] \in {"boot", "fetched", "serving", "aborted"} =>
                handle[p].conn # "open" /\ handle[p].live = 0
    /\ (Resolved /\ res.executed) =>
          /\ handle[res.proc].conn = "closed"
          /\ handle[res.proc].exit # <<>>
          /\ handle[res.proc].exit[Len(handle[res.proc].exit)] = "close"

\* A call that read the store while the other process also serves calls.
C30_Witness ==
    /\ Resolved /\ res.executed /\ res.outcome = "ok" /\ res.candidates # <<>>
    /\ handle[res.proc].live = 0 /\ handle[res.proc].conn = "closed"
    /\ \A p \in Procs : pc[p] = "serving"

====
